---- MODULE Spec2Model ----
(***************************************************************************)
(* CrackLeaf (crackleaf-rs/src/main.rs): the UI / unlock-session state     *)
(* machine.  One UI thread runs CrackLeafApp::update once per frame; each  *)
(* unlock session spawns one worker thread (run_unlock) that talks to the  *)
(* UI over an mpsc channel.                                                *)
(*                                                                         *)
(* Text literals of the program are written in ASCII here:                 *)
(*   "processing"  is the literal shown while a session runs (line 302)    *)
(*   "all_ok"      is the all-succeeded summary              (line 232)    *)
(*   "partial"     is the K/N summary, with its two numbers  (line 234)    *)
(*   "failed"      is the all-failed summary                 (line 236)    *)
(*   "info"        is the spawn-failure message              (line 676)    *)
(*   "tool_error"  is qpdf_error, the tool-missing message   (line 456)    *)
(*   "locked"/"unlocked" are the two icons; "restricted",                  *)
(*   "unrestricted", "unknown", "unlock_ok", "unlock_failed" the statuses. *)
(* Option<T> is a set: None == {} and Some(x) == {x}.                      *)
(***************************************************************************)
EXTENDS Integers, Sequences, FiniteSets, TLC

VARIABLES app, workers, chans, disk, env, hist, last

vars == <<app, workers, chans, disk, env, hist, last>>

None == {}
Some(x) == {x}
TheValue(o) == CHOOSE x \in o : TRUE

(***************************************************************************)
(* Program constants.                                                      *)
(***************************************************************************)
WINDOW_WIDTH == 390
WINDOW_HEIGHT_BASE == 390
WINDOW_HEIGHT_STEP == 70
WINDOW_HEIGHT_MAX == 975
LIST_MAX_FILES == 8
MAX_SUFFIX == 9999
PECK_LOOPS == 2
SUCCESS_LOOPS == 1
HAPPY_FRAMES == 7
PECK_FRAMES == 2
SUCCESS_FRAMES == 5

(***************************************************************************)
(* Bounds of the model.  The tool writes at most a bounded number of new   *)
(* files: once the disk holds that many, a run of the tool writes no       *)
(* further file (it fails, or overwrites a file it wrote).  MaxDiskMain    *)
(* bounds the session machine, MaxDiskFiles the worker's machine.          *)
(***************************************************************************)
MaxDiskMain == 1
MaxDiskFiles == 2

(***************************************************************************)
(* Paths.  A path is a directory, a file stem, a tail (empty for an input  *)
(* file, the "_unlocked..." part for an output file) and an optional       *)
(* extension, kept as a sequence of characters so that the case-blind      *)
(* comparison of is_pdf is computed.                                       *)
(***************************************************************************)
PlainTail == [tag |-> "", kind |-> "none", n |-> 0]
UnlockedTail(kind, n) == [tag |-> "_unlocked", kind |-> kind, n |-> n]

MkPath(d, s, e) == [dir |-> d, stem |-> s, tail |-> PlainTail, ext |-> e]

ExtLower == Some(<<"p", "d", "f">>)
ExtUpper == Some(<<"P", "D", "F">>)
ExtMixed == Some(<<"P", "d", "f">>)
ExtTxt == Some(<<"t", "x", "t">>)

PathA == MkPath("d1", "a", ExtLower)
PathA2 == MkPath("d2", "a", ExtUpper)
PathB == MkPath("d1", "b", ExtMixed)
PathNotes == MkPath("d1", "notes", ExtTxt)
PathNoExt == MkPath("d1", "pdf", None)

AsciiLower(c) ==
    CASE c = "P" -> "p"
      [] c = "D" -> "d"
      [] c = "F" -> "f"
      [] c = "T" -> "t"
      [] c = "X" -> "x"
      [] OTHER -> c

eq_ignore_ascii_case(a, b) ==
    /\ Len(a) = Len(b)
    /\ \A i \in 1..Len(a) : AsciiLower(a[i]) = AsciiLower(b[i])

is_pdf(path) ==
    IF path.ext = None THEN FALSE
    ELSE eq_ignore_ascii_case(TheValue(path.ext), <<"p", "d", "f">>)

file_stem(path) == path.stem

(***************************************************************************)
(* The file system the worker sees.  disk is the set of output files       *)
(* written since the program started; env.pre says how many of the leading *)
(* candidates a_unlocked.pdf, a_unlocked_1.pdf, ... already existed in the  *)
(* output directory before it started (0, or all of them, ...).            *)
(***************************************************************************)
resolve_download_dir(e) == e.download_dir

OutputDir(path, e) ==
    IF resolve_download_dir(e) # None THEN TheValue(resolve_download_dir(e))
    ELSE path.dir

Candidate(output_dir, stem, idx) ==
    [dir |-> output_dir, stem |-> stem,
     tail |-> IF idx = 0 THEN UnlockedTail("none", 0) ELSE UnlockedTail("num", idx),
     ext |-> ExtLower]

Overflow(output_dir, stem) ==
    [dir |-> output_dir, stem |-> stem, tail |-> UnlockedTail("overflow", 0),
     ext |-> ExtLower]

CandidateIndex(p) == IF p.tail.kind = "num" THEN p.tail.n ELSE 0

(* How many of the leading candidates of stem existed in output_dir at    *)
(* startup: env.pre of them for the stem a in the directory a.pdf's output *)
(* goes to, none elsewhere.                                                *)
PreCount(output_dir, stem, e) ==
    IF output_dir = OutputDir(PathA, e) /\ stem = "a" THEN e.pre ELSE 0

PreExisting(p, e) ==
    /\ p.tail.tag = "_unlocked"
    /\ p.tail.kind \in {"none", "num"}
    /\ p.ext = ExtLower
    /\ CandidateIndex(p) < PreCount(p.dir, p.stem, e)

Exists(p, d, e) == p \in d \/ PreExisting(p, e)

(***************************************************************************)
(* unique_output_path: the base candidate, then _1 .. _9999 in order, the  *)
(* first that does not exist; the overflow name when all of them exist.    *)
(* FirstFree is the loop over idx.  The candidates below env.pre exist     *)
(* whatever the disk holds, so the loop's steps over them are taken in one *)
(* (NextIndex): the result is that of stepping by one.                     *)
(***************************************************************************)
NextIndex(output_dir, stem, idx, e) ==
    IF idx + 1 < PreCount(output_dir, stem, e)
    THEN PreCount(output_dir, stem, e)
    ELSE idx + 1

RECURSIVE FirstFree(_, _, _, _, _)
FirstFree(output_dir, stem, idx, d, e) ==
    IF idx > MAX_SUFFIX THEN Overflow(output_dir, stem)
    ELSE IF ~Exists(Candidate(output_dir, stem, idx), d, e)
    THEN Candidate(output_dir, stem, idx)
    ELSE FirstFree(output_dir, stem, NextIndex(output_dir, stem, idx, e), d, e)

(* A choice of the base candidate whatever exists. *)
unique_output_path_base_only(output_dir, stem, d, e) == Candidate(output_dir, stem, 0)

unique_output_path(output_dir, stem, d, e) ==
    IF ~Exists(Candidate(output_dir, stem, 0), d, e)
    THEN Candidate(output_dir, stem, 0)
    ELSE FirstFree(output_dir, stem, 1, d, e)

(***************************************************************************)
(* One run of `qpdf --password= --decrypt <in> <out>`, as the worker sees  *)
(* it: the spawn fails, or the tool exits with or without success, having  *)
(* written the output file or not.                                         *)
(***************************************************************************)
ToolOutcomes == {"spawn_fail", "exit_fail", "exit_fail_file", "ok_file", "ok_nofile"}

ToolWrites(outcome) == outcome \in {"exit_fail_file", "ok_file"}
ToolSpawned(outcome) == outcome # "spawn_fail"
ToolSuccess(outcome) == outcome \in {"ok_file", "ok_nofile"}

(* unlock_pdf returns Err (spawn failure) or Ok(Option<PathBuf>); the      *)
(* record also carries the output path that was chosen and the disk after  *)
(* the tool has run.                                                       *)
AfterTool(outcome, output_path, d) ==
    IF ToolWrites(outcome) THEN d \cup {output_path} ELSE d

(* An unlock_pdf that returns Err for a non-zero exit too. *)
unlock_pdf_result_exit_is_err(outcome, output_path, d2, e) ==
    [err |-> ~ToolSpawned(outcome) \/ ~ToolSuccess(outcome),
     ok |-> IF ToolSuccess(outcome) /\ Exists(output_path, d2, e)
            THEN Some(output_path) ELSE None,
     chosen |-> output_path,
     disk |-> d2]

unlock_pdf_result(outcome, output_path, d2, e) ==
    [err |-> ~ToolSpawned(outcome),
     ok |-> IF ~ToolSpawned(outcome) THEN None
            ELSE IF ~ToolSuccess(outcome) THEN None
            ELSE IF Exists(output_path, d2, e) THEN Some(output_path)
            ELSE None,
     chosen |-> output_path,
     disk |-> d2]

unlock_pdf_to(outcome, output_path, d, e) ==
    unlock_pdf_result(outcome, output_path, AfterTool(outcome, output_path, d), e)

unlock_pdf(path, outcome, d, e) ==
    unlock_pdf_to(outcome,
                  unique_output_path(OutputDir(path, e), file_stem(path), d, e), d, e)

(***************************************************************************)
(* Messages of the worker channel.  An Info message carries, besides its   *)
(* text, the index of the entry whose spawn failed (not sent by the code,  *)
(* kept to state the order of messages).                                   *)
(***************************************************************************)
FileResultMsg(index, success, output_path) ==
    [type |-> "FileResult", index |-> index, success |-> success,
     output_path |-> output_path]
InfoMsg(index) ==
    [type |-> "Info", index |-> index, success |-> FALSE, output_path |-> None]
DoneMsg ==
    [type |-> "Done", index |-> 0, success |-> FALSE, output_path |-> None]

(* A worker that reports a spawn failure by the Info message alone. *)
run_unlock_messages_info_only(index, r) ==
    IF r.err THEN <<InfoMsg(index)>> ELSE <<FileResultMsg(index, r.ok # None, r.ok)>>

(* The messages run_unlock sends for one entry. *)
run_unlock_messages(index, r) ==
    IF r.err
    THEN <<FileResultMsg(index, FALSE, None), InfoMsg(index)>>
    ELSE <<FileResultMsg(index, r.ok # None, r.ok)>>

(***************************************************************************)
(* detect_encrypted: one run of `qpdf --show-encryption <path>`.  stdout   *)
(* is the output as a sequence of words; a phrase is a sequence of words,  *)
(* and occurs in a text where its words follow one another.                *)
(***************************************************************************)
ProbeRun(spawn_ok, exit_ok, stdout) ==
    [spawn_ok |-> spawn_ok, exit_ok |-> exit_ok, stdout |-> stdout]

LowerWord(w) ==
    CASE w = "File" -> "file"
      [] w = "NOT" -> "not"
      [] w = "Encrypted" -> "encrypted"
      [] w = "Encryption:" -> "encryption:"
      [] w = "User" -> "user"
      [] w = "Password" -> "password"
      [] OTHER -> w

to_lowercase(text) == [i \in 1..Len(text) |-> LowerWord(text[i])]

contains(text, phrase) ==
    \E i \in 1..(Len(text) - Len(phrase) + 1) :
        SubSeq(text, i, i + Len(phrase) - 1) = phrase

(* A probe that tests for the not-encrypted phrases first. *)
Classified_plain_first(stdout) ==
    IF \/ contains(stdout, <<"file", "is", "not", "encrypted">>)
       \/ contains(stdout, <<"not", "encrypted">>)
    THEN Some(FALSE)
    ELSE IF \/ contains(stdout, <<"file", "is", "encrypted">>)
            \/ contains(stdout, <<"encryption:", "yes">>)
            \/ contains(stdout, <<"user", "password">>)
            \/ contains(stdout, <<"owner", "password">>)
    THEN Some(TRUE)
    ELSE None

(* stdout: the lower-cased output. *)
Classified(stdout) ==
    IF \/ contains(stdout, <<"file", "is", "encrypted">>)
       \/ contains(stdout, <<"encryption:", "yes">>)
       \/ contains(stdout, <<"user", "password">>)
       \/ contains(stdout, <<"owner", "password">>)
    THEN Some(TRUE)
    ELSE IF \/ contains(stdout, <<"file", "is", "not", "encrypted">>)
            \/ contains(stdout, <<"not", "encrypted">>)
    THEN Some(FALSE)
    ELSE None

detect_encrypted(run) ==
    IF ~run.spawn_ok THEN None
    ELSE IF ~run.exit_ok THEN None
    ELSE Classified(to_lowercase(run.stdout))

RunEncrypted == ProbeRun(TRUE, TRUE, <<"User", "Password", "owner", "password">>)
RunPlain == ProbeRun(TRUE, TRUE, <<"File", "is", "not", "encrypted">>)
RunExitFail == ProbeRun(TRUE, FALSE, <<>>)
RunSpawnFail == ProbeRun(FALSE, FALSE, <<>>)

(* What the probe of an input file gives: fixed by the file's content,     *)
(* which the machine gives for all its files or which goes by the name.    *)
ProbeOfInput(path, e) ==
    IF ~e.tool_present THEN RunSpawnFail
    ELSE IF e.input_run # None THEN TheValue(e.input_run)
    ELSE IF path.stem = "a" THEN RunEncrypted
    ELSE IF path.stem = "b" THEN RunPlain
    ELSE RunExitFail

(* What the probe of an output file may give: any result, or, on a machine *)
(* whose outputs are never left encrypted, all but encrypted.              *)
OutputProbeRuns == {RunEncrypted, RunPlain, RunExitFail}

OpenOutputRuns == {RunPlain, RunExitFail}

(***************************************************************************)
(* CrackLeafApp.                                                           *)
(***************************************************************************)
Text(t) == [t |-> t, k |-> 0, n |-> 0]
PartialText(k, n) == [t |-> "partial", k |-> k, n |-> n]
EmptyText == Text("")

(* The text of an Info message: that of the spawn failure on one entry. *)
InfoText(index) == [t |-> "info", k |-> index, n |-> 0]

FileEntry(path, icon, status) ==
    [path |-> path, icon |-> icon, status |-> status,
     unlock_result |-> None, output_path |-> None]

AppNew(qpdf_ok) ==
    [file_entries |-> <<>>,
     animation |-> [mode |-> "Logo", frame_index |-> 0, loops_left |-> 0],
     unlock_in_progress |-> FALSE,
     unlock_ready_for_success |-> FALSE,
     unlock_work_done |-> FALSE,
     result_text |-> EmptyText,
     unlock_rx |-> None,
     last_window_height |-> WINDOW_HEIGHT_BASE,
     success_reverse |-> FALSE,
     qpdf_ok |-> qpdf_ok,
     had_unlock |-> FALSE,
     qpdf_prompted |-> FALSE]

set_mode(s, mode) ==
    IF s.animation.mode # mode
    THEN [s EXCEPT !.animation = [mode |-> mode, frame_index |-> 0, loops_left |-> 0]]
    ELSE s

start_happy_loop(s) == set_mode(s, "HappyLoop")

(* A Peck animation of one loop. *)
start_peck_one_loop(s) ==
    [s EXCEPT !.animation = [mode |-> "Peck", frame_index |-> 0, loops_left |-> 1]]

start_peck(s) ==
    [s EXCEPT !.animation = [mode |-> "Peck", frame_index |-> 0, loops_left |-> PECK_LOOPS]]

start_success(s, reverse) ==
    [s EXCEPT !.success_reverse = reverse,
              !.animation = [mode |-> "Success", frame_index |-> 0,
                             loops_left |-> SUCCESS_LOOPS]]

SuccessCount(entries) ==
    Cardinality({i \in 1..Len(entries) : entries[i].unlock_result = Some(TRUE)})

SummaryText(success_count, total_count) ==
    IF success_count = total_count /\ total_count > 0 THEN Text("all_ok")
    ELSE IF success_count > 0 THEN PartialText(success_count, total_count)
    ELSE Text("failed")

(* A rendezvous that starts Success without writing the summary. *)
StartSummary_no_text(s, success_count, total_count) ==
    start_success(s, total_count > 0 /\ success_count = 0)

StartSummary(s, success_count, total_count) ==
    start_success([s EXCEPT !.result_text = SummaryText(success_count, total_count)],
                  total_count > 0 /\ success_count = 0)

(* A rendezvous that waits for the Peck animation only. *)
maybe_start_success_animation_peck_only(s) ==
    IF ~s.unlock_ready_for_success THEN s
    ELSE StartSummary(s, SuccessCount(s.file_entries), Len(s.file_entries))

maybe_start_success_animation(s) ==
    IF ~(s.unlock_ready_for_success /\ s.unlock_work_done) THEN s
    ELSE StartSummary(s, SuccessCount(s.file_entries), Len(s.file_entries))

frame_count(s) ==
    CASE s.animation.mode = "Logo" -> 1
      [] s.animation.mode = "HappyLoop" -> HAPPY_FRAMES
      [] s.animation.mode = "Peck" -> PECK_FRAMES
      [] s.animation.mode = "Success" -> SUCCESS_FRAMES

(* Peck wrapped around and loops_left, decremented if positive, is left. *)
PeckWrapped(s, left) ==
    IF left = 0
    THEN maybe_start_success_animation(
             set_mode([s EXCEPT !.animation.loops_left = left,
                                !.unlock_ready_for_success = TRUE], "Logo"))
    ELSE [s EXCEPT !.animation.loops_left = left]

PeckWrap(s) ==
    PeckWrapped(s, IF s.animation.loops_left > 0 THEN s.animation.loops_left - 1
                   ELSE s.animation.loops_left)

SuccessEnded(s) ==
    IF s.file_entries # <<>> THEN start_happy_loop(s) ELSE set_mode(s, "Logo")

(* Success wrapped around and loops_left, after saturating_sub(1), is left. *)
SuccessWrapped(s, left) ==
    IF left = 0
    THEN SuccessEnded([s EXCEPT !.animation.loops_left = left,
                                !.unlock_in_progress = FALSE])
    ELSE [s EXCEPT !.animation.loops_left = left]

SuccessWrap(s) ==
    SuccessWrapped(s, IF s.animation.loops_left > 0 THEN s.animation.loops_left - 1 ELSE 0)

(* The frame index has advanced to that of s1. *)
Advanced(s1) ==
    CASE s1.animation.mode = "Peck" ->
            IF s1.animation.frame_index = 0 THEN PeckWrap(s1) ELSE s1
      [] s1.animation.mode = "Success" ->
            IF s1.animation.frame_index = 0 THEN SuccessWrap(s1) ELSE s1
      [] OTHER -> s1

(* elapsed: whether frame_interval has passed since the last tick. *)
tick_animation(s, elapsed) ==
    IF s.animation.mode = "Logo" THEN s
    ELSE IF ~elapsed THEN s
    ELSE Advanced([s EXCEPT !.animation.frame_index =
                                (s.animation.frame_index + 1) % frame_count(s)])

(* Whether tick_animation calls ctx.request_repaint() in a frame that      *)
(* starts in s: never in mode Logo, where it returns at once; otherwise     *)
(* both before and after the frame interval has elapsed.                    *)
RequestsRepaint(s, elapsed) ==
    IF s.animation.mode = "Logo" THEN FALSE
    ELSE IF ~elapsed THEN TRUE
    ELSE frame_count(s) # 0

(* A height that keeps growing with the list. *)
WindowHeight_no_max(count) ==
    IF count <= 2 THEN WINDOW_HEIGHT_BASE
    ELSE WINDOW_HEIGHT_BASE + (count - 2) * WINDOW_HEIGHT_STEP

WindowHeight(count) ==
    IF count <= 2 THEN WINDOW_HEIGHT_BASE
    ELSE IF count <= LIST_MAX_FILES
    THEN WINDOW_HEIGHT_BASE + (count - 2) * WINDOW_HEIGHT_STEP
    ELSE WINDOW_HEIGHT_MAX

ResizeTo(s, height) ==
    IF height # s.last_window_height THEN [s EXCEPT !.last_window_height = height] ELSE s

update_window_size(s) == ResizeTo(s, WindowHeight(Len(s.file_entries)))

EntryFor(path, probe) ==
    IF probe = Some(TRUE) THEN FileEntry(path, "locked", "restricted")
    ELSE IF probe = Some(FALSE) THEN FileEntry(path, "unlocked", "unrestricted")
    ELSE FileEntry(path, "locked", "unknown")

ProbedEntry(path, e) == EntryFor(path, detect_encrypted(ProbeOfInput(path, e)))

(* An Add that does not look for the path in the list. *)
AcceptsPath_no_duplicate_check(entries, path) == is_pdf(path)

AcceptsPath(entries, path) ==
    /\ is_pdf(path)
    /\ ~(\E i \in 1..Len(entries) : entries[i].path = path)

RECURSIVE AddLoop(_, _, _, _)
AddLoop(entries, paths, i, e) ==
    IF i > Len(paths) THEN entries
    ELSE IF AcceptsPath(entries, paths[i])
    THEN AddLoop(Append(entries, ProbedEntry(paths[i], e)), paths, i + 1, e)
    ELSE AddLoop(entries, paths, i + 1, e)

(* An Add that resets the text and the flag but keeps the old list. *)
ClearIfHadUnlock_keeps_list(s) ==
    IF s.had_unlock THEN [s EXCEPT !.result_text = EmptyText, !.had_unlock = FALSE] ELSE s

ClearIfHadUnlock(s) ==
    IF s.had_unlock
    THEN [s EXCEPT !.file_entries = <<>>, !.result_text = EmptyText, !.had_unlock = FALSE]
    ELSE s

(* s1: after the clearing; entries: after the loop over paths. *)
Added(s1, entries) ==
    [s1 EXCEPT !.file_entries = entries,
               !.result_text = IF Len(entries) > Len(s1.file_entries) THEN EmptyText
                               ELSE s1.result_text]

AddTo(s1, paths, e) == Added(s1, AddLoop(s1.file_entries, paths, 1, e))

add_files(s, paths, e) == AddTo(ClearIfHadUnlock(s), paths, e)

(* A start_unlock that does not look at unlock_in_progress. *)
StartsSession_while_running(s) == s.file_entries # <<>>

(* Whether start_unlock gets past its early return and spawns a worker. *)
StartsSession(s) == ~s.unlock_in_progress /\ s.file_entries # <<>>

(* A start_unlock that leaves the two rendezvous flags as they are. *)
start_unlock_keeps_flags(s, rx) ==
    IF ~StartsSession(s) THEN s
    ELSE [start_peck([s EXCEPT !.unlock_in_progress = TRUE,
                               !.result_text = Text("processing")])
            EXCEPT !.unlock_rx = Some(rx)]

(* rx names the channel whose receiver is installed. *)
start_unlock(s, rx) ==
    IF ~StartsSession(s) THEN s
    ELSE [start_peck([s EXCEPT !.unlock_in_progress = TRUE,
                               !.unlock_ready_for_success = FALSE,
                               !.unlock_work_done = FALSE,
                               !.result_text = Text("processing")])
            EXCEPT !.unlock_rx = Some(rx)]

(* A success that shows the lock unless the output is known to be open. *)
SuccessShown_unknown_locked(entry, reprobe) ==
    [entry EXCEPT !.status = "unlock_ok",
                  !.icon = IF detect_encrypted(reprobe) = Some(FALSE)
                           THEN "unlocked" ELSE "locked"]

(* The entry after a success: its output path is set by then. *)
SuccessShown(entry, reprobe) ==
    [entry EXCEPT !.status = "unlock_ok",
                  !.icon = IF entry.output_path # None
                           THEN IF detect_encrypted(reprobe) = Some(TRUE)
                                THEN "locked" ELSE "unlocked"
                           ELSE "unlocked"]

ApplyFileResult(entry, msg, reprobe) ==
    IF msg.success
    THEN SuccessShown([entry EXCEPT !.unlock_result = Some(msg.success),
                                    !.output_path = msg.output_path], reprobe)
    ELSE [entry EXCEPT !.unlock_result = Some(msg.success), !.status = "unlock_failed"]

(* A poll whose Info message always replaces the text. *)
ApplyMessage_info_always(s, msg, reprobe) ==
    CASE msg.type = "FileResult" ->
            IF msg.index < Len(s.file_entries)
            THEN [s EXCEPT !.file_entries[msg.index + 1] =
                               ApplyFileResult(s.file_entries[msg.index + 1], msg, reprobe)]
            ELSE s
      [] msg.type = "Info" -> [s EXCEPT !.result_text = InfoText(msg.index)]
      [] msg.type = "Done" ->
            maybe_start_success_animation(
                [s EXCEPT !.unlock_work_done = TRUE, !.had_unlock = TRUE])

ApplyMessage(s, msg, reprobe) ==
    CASE msg.type = "FileResult" ->
            IF msg.index < Len(s.file_entries)
            THEN [s EXCEPT !.file_entries[msg.index + 1] =
                               ApplyFileResult(s.file_entries[msg.index + 1], msg, reprobe)]
            ELSE s
      [] msg.type = "Info" ->
            IF s.result_text = EmptyText \/ s.result_text = Text("processing")
            THEN [s EXCEPT !.result_text = InfoText(msg.index)]
            ELSE s
      [] msg.type = "Done" ->
            maybe_start_success_animation(
                [s EXCEPT !.unlock_work_done = TRUE, !.had_unlock = TRUE])

RECURSIVE DrainLoop(_, _, _, _)
DrainLoop(s, msgs, i, reprobe) ==
    IF i > Len(msgs) THEN s
    ELSE DrainLoop(ApplyMessage(s, msgs[i], reprobe), msgs, i + 1, reprobe)

HasDone(msgs) == \E i \in 1..Len(msgs) : msgs[i].type = "Done"

(* A poll that never puts the receiver back. *)
Drained_receiver_lost(s1, msgs) == [s1 EXCEPT !.unlock_rx = None]

(* s1: after the loop; the receiver is put back unless Done was seen. *)
Drained(s1, msgs) == IF HasDone(msgs) THEN [s1 EXCEPT !.unlock_rx = None] ELSE s1

(* msgs: what try_recv yields until the channel is empty. *)
handle_unlock_messages(s, msgs, reprobe) ==
    IF s.unlock_rx = None THEN s
    ELSE Drained(DrainLoop(s, msgs, 1, reprobe), msgs)

(***************************************************************************)
(* CrackLeafApp::update, one frame.  The inputs of a frame:                *)
(*   elapsed  whether the animation interval has passed                    *)
(*   dropped  the paths dropped on the window (<<>> for none)              *)
(*   hovered, clicked  the mascot button's response                        *)
(*   picked   what the file picker returns if it is opened                 *)
(*   reprobe  what the probe of an output file gives in this frame         *)
(* s1 .. s5 name the app after each part of the frame.                     *)
(***************************************************************************)
FrameInput(elapsed, dropped, hovered, clicked, picked, reprobe) ==
    [elapsed |-> elapsed, dropped |-> dropped, hovered |-> hovered,
     clicked |-> clicked, picked |-> picked, reprobe |-> reprobe]

AfterTick(s, in) == tick_animation(s, in.elapsed)

AfterMessages(s1, in, msgs) == handle_unlock_messages(s1, msgs, in.reprobe)

DropAdded(s3) ==
    update_window_size(IF s3.file_entries # <<>> THEN start_happy_loop(s3) ELSE s3)

AfterDrop(s2, in, e) ==
    IF in.dropped # <<>> THEN DropAdded(add_files(s2, in.dropped, e)) ELSE s2

AfterHover(s3, in) ==
    IF ~s3.unlock_in_progress /\ s3.file_entries # <<>>
    THEN IF in.hovered THEN set_mode(s3, "Logo")
         ELSE IF s3.animation.mode # "HappyLoop" THEN start_happy_loop(s3)
         ELSE s3
    ELSE s3

(* The click opens the picker on an empty list, else starts a session. *)
ClickSpawns(s4, in) ==
    /\ in.clicked
    /\ s4.file_entries # <<>>
    /\ s4.qpdf_ok
    /\ StartsSession(s4)

PickAdded(s5) ==
    IF s5.file_entries # <<>> THEN update_window_size(start_happy_loop(s5)) ELSE s5

(* A click handler that does not look at qpdf_ok. *)
OnClick_no_tool_check(s4, in, e, rx) ==
    IF ~in.clicked THEN s4
    ELSE IF s4.file_entries = <<>>
    THEN IF in.picked # None THEN PickAdded(add_files(s4, TheValue(in.picked), e))
         ELSE s4
    ELSE start_unlock(s4, rx)

OnClick(s4, in, e, rx) ==
    IF ~in.clicked THEN s4
    ELSE IF s4.file_entries = <<>>
    THEN IF in.picked # None THEN PickAdded(add_files(s4, TheValue(in.picked), e))
         ELSE s4
    ELSE IF ~s4.qpdf_ok THEN [s4 EXCEPT !.result_text = Text("tool_error")]
    ELSE start_unlock(s4, rx)

(* A prompt whenever the tool is missing. *)
Prompts_unguarded(s) == ~s.qpdf_ok

(* Whether the frame raises the install dialog (show_qpdf_setup_dialog). *)
Prompts(s) == ~s.qpdf_ok /\ ~s.qpdf_prompted

PromptForTool(s) ==
    IF Prompts(s) THEN [s EXCEPT !.qpdf_prompted = TRUE] ELSE s

(* The app before the click is handled. *)
BeforeClick(s, in, msgs, e) ==
    AfterHover(AfterDrop(AfterMessages(AfterTick(s, in), in, msgs), in, e), in)

update(s, in, msgs, e, rx) ==
    PromptForTool(OnClick(BeforeClick(s, in, msgs, e), in, e, rx))

(***************************************************************************)
(* The state machine.  app is the CrackLeafApp; workers are the run_unlock *)
(* threads, each with its snapshot and the index its loop has reached;     *)
(* chans are the mpsc channels, by the name of their receiver; disk is the *)
(* set of output files written; env is the machine the program runs on.    *)
(* hist and last are history variables: the current session's record and   *)
(* the step just taken.                                                    *)
(***************************************************************************)
PreChoices == {0, 1, MAX_SUFFIX, MAX_SUFFIX + 1}

(* The history of a session starts at the click that spawns its worker and *)
(* is dropped when the session ends (unlock_in_progress is cleared).       *)
(* started: whether a session is on; id: its worker; peck_ticks: the ticks *)
(* of the session's Peck animation, while it plays and once it completed   *)
(* (0 when it was left without completing); recv, sent: the messages the   *)
(* UI applied and the worker sent; snapshot: the list the worker was given;*)
(* rv: the rendezvous, once maybe_start_success_animation started Success. *)
HistNew(started, id) ==
    [started |-> started, id |-> id, peck_ticks |-> 0, recv |-> <<>>, sent |-> <<>>,
     snapshot |-> <<>>, rv |-> None]

(* The inner size of the window: as main sets it, then as the last         *)
(* ViewportCommand::InnerSize of update_window_size set it.                *)
InnerSize(width, height) == [width |-> width, height |-> height]

Step(op, dropped, path, outcome, chosen, before) ==
    [op |-> op, dropped |-> dropped, path |-> path, outcome |-> outcome,
     chosen |-> chosen, before |-> before, dialogs |-> 0, dialog_now |-> FALSE,
     window |-> InnerSize(WINDOW_WIDTH, WINDOW_HEIGHT_BASE), repaint |-> FALSE]

(* The step, with the number of install dialogs raised so far; the window  *)
(* is as it was.                                                           *)
Raised(step, dialogs) == [step EXCEPT !.dialogs = dialogs, !.window = last.window]

(* The window after a frame that left the recorded height at height: the   *)
(* InnerSize command is sent when the height changes.                      *)
Resized(step, height) ==
    [step EXCEPT !.window = IF height # app.last_window_height
                            THEN InnerSize(WINDOW_WIDTH, height) ELSE last.window]

(* The frame, having asked the context for a further repaint or not. *)
Requested(step, repaint) == [step EXCEPT !.repaint = repaint]

(* A frame that raised the install dialog or not, after the step before. *)
RaisedIn(step, now) ==
    [step EXCEPT !.dialogs = IF now THEN last.dialogs + 1 ELSE last.dialogs,
                 !.dialog_now = now]

(* What a frame was: one without a click, or a click that found the list   *)
(* empty (the picker) or not (the unlock).                                 *)
FrameOp(s4, in) ==
    IF ~in.clicked THEN "frame"
    ELSE IF s4.file_entries = <<>> THEN "click_pick"
    ELSE "click_unlock"

(* The state after CrackLeafApp::new, in an environment of envs. *)
Start(envs) ==
    /\ env \in envs
    /\ app = AppNew(env.tool_present)
    /\ workers = {}
    /\ chans = [x \in {} |-> <<>>]
    /\ disk = {}
    /\ hist = HistNew(FALSE, 0)
    /\ last = Step("init", <<>>, None, "", None, {})

(* What try_recv yields in this frame. *)
Pending == IF app.unlock_rx # None THEN chans[TheValue(app.unlock_rx)] ELSE <<>>

HasSuccess(msgs) == \E i \in 1..Len(msgs) : msgs[i].success

(* The re-probe is an input only of a frame that applies a success. *)
ReprobeChoices == IF HasSuccess(Pending) THEN env.output_runs ELSE {RunPlain}

RendezvousAt(at, s) ==
    Some([at |-> at, text |-> s.result_text, reverse |-> s.success_reverse,
          mode |-> s.animation.mode])

BothFlags(s) == s.unlock_ready_for_success /\ s.unlock_work_done

(* The rendezvous of a frame, if maybe_start_success_animation got past    *)
(* its early return in it (the second of the two flags was set): where it  *)
(* was called from (the Peck tick or the Done message), and the summary    *)
(* text, the direction and the mode it left.                               *)
Rendezvous(s, s1, s2) ==
    IF ~BothFlags(s) /\ BothFlags(s1) THEN RendezvousAt("tick", s1)
    ELSE IF ~BothFlags(s1) /\ BothFlags(s2) THEN RendezvousAt("done", s2)
    ELSE None

(* The name of a new channel and its worker: one that is not in use. *)
InUse == {w.id : w \in workers} \cup DOMAIN chans

FreshId == CHOOSE i \in 1..(Cardinality(InUse) + 1) : i \notin InUse

(* thread::spawn(run_unlock(files, tx)) of start_unlock. *)
Spawn(s4, in, rx) ==
    IF ClickSpawns(s4, in)
    THEN workers \cup {[id |-> rx, files |-> s4.file_entries, index |-> 0]}
    ELSE workers

(* The receivers a frame drops: the one that yielded Done, and the one     *)
(* start_unlock overwrites.                                                *)
DroppedReceivers(msgs, s4, in) ==
    (IF HasDone(msgs) THEN app.unlock_rx ELSE {})
        \cup (IF ClickSpawns(s4, in) THEN s4.unlock_rx ELSE {})

(* The channels after a frame: the polled one is empty, new is created. *)
Channels(kept, new) ==
    [x \in kept \cup new |->
        IF x \in kept /\ Some(x) # app.unlock_rx THEN chans[x] ELSE <<>>]

HistTicked(in) ==
    IF app.animation.mode = "Peck" /\ in.elapsed
    THEN hist.peck_ticks + 1 ELSE hist.peck_ticks

HistFrame(in, msgs, rv, s4) ==
    [hist EXCEPT !.peck_ticks = IF s4.animation.mode # "Peck" /\ ~s4.unlock_ready_for_success
                                THEN 0 ELSE HistTicked(in),
                 !.recv = hist.recv \o msgs,
                 !.rv = IF rv # None THEN rv ELSE hist.rv]

History(in, msgs, rv, s4, rx) ==
    IF ClickSpawns(s4, in)
    THEN [HistNew(TRUE, rx) EXCEPT !.snapshot = s4.file_entries]
    ELSE IF app.unlock_in_progress /\ ~s4.unlock_in_progress
    THEN HistNew(FALSE, 0)
    ELSE HistFrame(in, msgs, rv, s4)

FrameEffect(in, msgs, rv, s4, rx) ==
    /\ app' = update(app, in, msgs, env, rx)
    /\ workers' = Spawn(s4, in, rx)
    /\ chans' = Channels((DOMAIN chans) \ DroppedReceivers(msgs, s4, in),
                         IF ClickSpawns(s4, in) THEN {rx} ELSE {})
    /\ hist' = History(in, msgs, rv, s4, rx)
    /\ last' = Requested(
                   Resized(RaisedIn(Step(FrameOp(s4, in), in.dropped, None, "", None, {}),
                                    Prompts(OnClick(s4, in, env, rx))),
                           app'.last_window_height),
                   RequestsRepaint(app, in.elapsed))
    /\ UNCHANGED <<disk, env>>

FrameVia(in, msgs, s1, s2) ==
    FrameEffect(in, msgs, Rendezvous(app, s1, s2),
                AfterHover(AfterDrop(s2, in, env), in), FreshId)

FrameFrom(in, msgs, s1) == FrameVia(in, msgs, s1, AfterMessages(s1, in, msgs))

(* One call of update by the event loop, with the inputs in. *)
Frame(in) == FrameFrom(in, Pending, AfterTick(app, in))

(* The picker is an input only of a click on an empty list. *)
PicksNow(picks) == IF app.file_entries = <<>> THEN picks ELSE {None}

TickFrame ==
    \E elapsed \in BOOLEAN, hovered \in BOOLEAN, reprobe \in ReprobeChoices :
        Frame(FrameInput(elapsed, <<>>, hovered, FALSE, None, reprobe))

DropFrame(batches) ==
    \E dropped \in batches, elapsed \in BOOLEAN, reprobe \in ReprobeChoices :
        Frame(FrameInput(elapsed, dropped, FALSE, FALSE, None, reprobe))

ClickFrame(picks) ==
    \E picked \in PicksNow(picks), elapsed \in BOOLEAN, reprobe \in ReprobeChoices :
        Frame(FrameInput(elapsed, <<>>, TRUE, TRUE, picked, reprobe))

(* Files are dropped and the mascot is clicked in one frame; the picker,   *)
(* if the click opens it, is cancelled.                                    *)
DropClickFrame(batches) ==
    \E dropped \in batches, elapsed \in BOOLEAN, reprobe \in ReprobeChoices :
        Frame(FrameInput(elapsed, dropped, TRUE, TRUE, None, reprobe))

(* A channel that delivers the newest message first. *)
Send_newest_first(id, msgs) ==
    IF id \in DOMAIN chans THEN [chans EXCEPT ![id] = msgs \o chans[id]] ELSE chans

(* tx.send: the message is lost if the receiver was dropped. *)
Send(id, msgs) ==
    IF id \in DOMAIN chans THEN [chans EXCEPT ![id] = chans[id] \o msgs] ELSE chans

HistSent(w, msgs) ==
    IF hist.started /\ w.id = hist.id THEN [hist EXCEPT !.sent = hist.sent \o msgs] ELSE hist

(* Whether the bound on the disk lets the tool end in outcome. *)
DiskAllows(path, outcome, cap) ==
    ToolWrites(outcome) =>
        \/ Cardinality(disk) < cap
        \/ unlock_pdf(path, outcome, disk, env).chosen \in disk

(* The worker w has run the tool on path, with the result r. *)
WorkerRan(w, path, outcome, r) ==
    /\ disk' = r.disk
    /\ chans' = Send(w.id, run_unlock_messages(w.index, r))
    /\ workers' = (workers \ {w}) \cup {[w EXCEPT !.index = w.index + 1]}
    /\ hist' = HistSent(w, run_unlock_messages(w.index, r))
    /\ last' = Raised(Step("worker", <<>>, Some(path), outcome, Some(r.chosen), disk),
                       last.dialogs)
    /\ UNCHANGED <<app, env>>

WorkerOn(w, path, outcome, cap) ==
    /\ DiskAllows(path, outcome, cap)
    /\ WorkerRan(w, path, outcome, unlock_pdf(path, outcome, disk, env))

(* run_unlock: one iteration of its loop, the tool ending in one of outcomes. *)
WorkerFileStep(outcomes, cap) ==
    \E w \in workers, outcome \in outcomes :
        /\ w.index < Len(w.files)
        /\ WorkerOn(w, w.files[w.index + 1].path, outcome, cap)

(***************************************************************************)
(* The session machine: one tool-ok and one tool-missing environment, the  *)
(* output directory empty at startup.                                      *)
(***************************************************************************)
EnvMain ==
    [tool_present : BOOLEAN, download_dir : {Some("downloads")}, pre : {0},
     output_runs : {OpenOutputRuns}, input_run : {None}]

DropBatches == {<<PathA, PathA, PathNotes>>}

PickChoices == {None, Some(<<PathB, PathNoExt>>)}

MainOutcomes == {"spawn_fail", "exit_fail", "ok_file", "ok_nofile"}

Init == Start(EnvMain)

(* A frame with no input event: the animation tick and the channel poll. *)
Tick == TickFrame

(* A frame in which files were dropped on the window. *)
Drop == DropFrame(DropBatches)

(* A frame in which the mascot was clicked. *)
Click == ClickFrame(PickChoices)

WorkerFile == WorkerFileStep(MainOutcomes, MaxDiskMain)

(* run_unlock: the Done after the loop; the thread ends. *)
WorkerDone ==
    \E w \in workers :
        /\ w.index = Len(w.files)
        /\ chans' = Send(w.id, <<DoneMsg>>)
        /\ workers' = workers \ {w}
        /\ hist' = HistSent(w, <<DoneMsg>>)
        /\ last' = Raised(Step("done", <<>>, None, "", None, {}), last.dialogs)
        /\ UNCHANGED <<app, disk, env>>

(* A frame with both events. *)
DropClick == DropClickFrame(DropBatches)

Next == Tick \/ Drop \/ Click \/ DropClick \/ WorkerFile \/ WorkerDone

Spec == Init /\ [][Next]_vars

(***************************************************************************)
(* The session machine under the scheduling the event loop and the worker  *)
(* thread give: frames whose animation interval has passed keep occurring  *)
(* (tick_animation requests a repaint), and the worker's tool invocations  *)
(* return.                                                                 *)
(***************************************************************************)
TickElapsed ==
    \E hovered \in BOOLEAN, reprobe \in ReprobeChoices :
        Frame(FrameInput(TRUE, <<>>, hovered, FALSE, None, reprobe))

SpecLive ==
    /\ Init
    /\ [][Next]_vars
    /\ WF_vars(TickElapsed)
    /\ WF_vars(WorkerFile)
    /\ WF_vars(WorkerDone)

(***************************************************************************)
(* The output-directory machine: two inputs of the same stem, the download *)
(* directory resolved or not, and an output directory in which none, one,  *)
(* all but the last, or all of the numbered candidates exist at startup.   *)
(***************************************************************************)
EnvDisk ==
    [tool_present : {TRUE}, download_dir : {Some("downloads"), None}, pre : PreChoices,
     output_runs : {OpenOutputRuns}, input_run : {None}]

InitDisk == Start(EnvDisk)

(* The two files are dropped on the empty list only. *)
DropsNow(batches) == IF app.file_entries = <<>> THEN batches ELSE {}

DropDisk == DropFrame(DropsNow({<<PathA, PathA2>>}))

ClickDisk == ClickFrame({None})

WorkerFileDisk == WorkerFileStep(ToolOutcomes, MaxDiskFiles)

NextDisk == Tick \/ DropDisk \/ ClickDisk \/ WorkerFileDisk \/ WorkerDone

SpecDisk == InitDisk /\ [][NextDisk]_vars

(***************************************************************************)
(* The list machine: nine distinct PDFs, offered two, three, eight or all  *)
(* at once, by drop or by the picker; no tool, so that no session starts.  *)
(***************************************************************************)
FStems == <<"f1", "f2", "f3", "f4", "f5", "f6", "f7", "f8", "f9">>

PathF(k) == MkPath("d1", FStems[k], ExtLower)

FilesFrom(k, n) == [i \in 1..n |-> PathF(k + i - 1)]

NineFiles == FilesFrom(1, Len(FStems))

CapBatches ==
    {FilesFrom(1, 2), FilesFrom(1, 3), FilesFrom(4, 3), FilesFrom(7, 3),
     FilesFrom(1, LIST_MAX_FILES), NineFiles}

EnvCap ==
    [tool_present : {FALSE}, download_dir : {Some("downloads")}, pre : {0},
     output_runs : {OpenOutputRuns}, input_run : {None}]

InitCap == Start(EnvCap)

DropCap == DropFrame(CapBatches)

ClickCap == ClickFrame({None, Some(NineFiles)})

NextCap == Tick \/ DropCap \/ ClickCap

SpecCap == InitCap /\ [][NextCap]_vars

(***************************************************************************)
(* The replacement machine: the tool is present, and a drop is a batch     *)
(* with PDFs in it or one with none, so that an Add after a session can    *)
(* leave the list empty, during a later session too.                       *)
(***************************************************************************)
ClearBatches == {<<PathA, PathA, PathNotes>>, <<PathNotes>>}

EnvClear ==
    [tool_present : {TRUE}, download_dir : {Some("downloads")}, pre : {0},
     output_runs : {OutputProbeRuns}, input_run : {None}]

InitClear == Start(EnvClear)

DropClear == DropFrame(ClearBatches)

WorkerFileClear == WorkerFileStep({"ok_file"}, MaxDiskMain)

NextClear == Tick \/ DropClear \/ Click \/ WorkerFileClear \/ WorkerDone

SpecClear == InitClear /\ [][NextClear]_vars

(***************************************************************************)
(* The re-probe machine: two files, dropped on the empty list, a tool that *)
(* ends in a non-zero exit or in success, and outputs whose probe may give *)
(* any result, encrypted included.                                         *)
(***************************************************************************)
EnvProbe ==
    [tool_present : {TRUE}, download_dir : {Some("downloads")}, pre : {0},
     output_runs : {OutputProbeRuns}, input_run : {None}]

InitProbe == Start(EnvProbe)

DropProbe == DropFrame(DropsNow({<<PathA, PathB>>}))

WorkerFileProbe == WorkerFileStep({"exit_fail", "ok_file"}, MaxDiskFiles)

NextProbe == Tick \/ DropProbe \/ ClickDisk \/ WorkerFileProbe \/ WorkerDone

SpecProbe == InitProbe /\ [][NextProbe]_vars

(***************************************************************************)
(* The probe machine: one file is dropped on a machine whose probe of it   *)
(* fails to spawn, or exits with or without success after an output of up  *)
(* to MaxChunks pieces, which are the tested phrases, in upper and lower   *)
(* case, and parts of them.                                                *)
(***************************************************************************)
MaxChunks == 2

Chunks ==
    {<<"File", "is", "Encrypted">>, <<"Encryption:", "yes">>, <<"User", "Password">>,
     <<"owner", "password">>, <<"File", "is", "NOT", "encrypted">>, <<"not", "encrypted">>,
     <<"file", "is">>, <<"encrypted">>, <<"password">>, <<"not">>, <<"yes">>, <<"R", "3">>}

RECURSIVE StdoutsOf(_)
StdoutsOf(n) ==
    IF n = 0 THEN {<<>>}
    ELSE StdoutsOf(n - 1) \cup {a \o b : a \in StdoutsOf(n - 1), b \in Chunks}

DetectRuns ==
    {RunSpawnFail} \cup {ProbeRun(TRUE, ok, out) : ok \in BOOLEAN, out \in StdoutsOf(MaxChunks)}

EnvDetect ==
    [tool_present : {TRUE}, download_dir : {Some("downloads")}, pre : {0},
     output_runs : {OpenOutputRuns}, input_run : {Some(run) : run \in DetectRuns}]

InitDetect == Start(EnvDetect)

DropDetect == DropFrame(DropsNow({<<PathB>>}))

NextDetect == Tick \/ DropDetect

SpecDetect == InitDetect /\ [][NextDetect]_vars

(***************************************************************************)
(* The claims.                                                             *)
(***************************************************************************)
DoneReceived == \E p \in 1..Len(hist.recv) : hist.recv[p].type = "Done"

RendezvousWas(at) == hist.rv # None /\ TheValue(hist.rv).at = at

(* C1: the Success animation is playing only in a state where              *)
(* ready_for_success and work_done are both true, the session's Peck       *)
(* animation having reached a loop count of zero and the session's Done    *)
(* having been received, whichever of the two came first.                  *)
SuccessOnlyAfterBoth ==
    app.animation.mode = "Success" =>
        /\ app.unlock_ready_for_success
        /\ app.unlock_work_done
        /\ hist.started
        /\ hist.peck_ticks = PECK_LOOPS * PECK_FRAMES
        /\ DoneReceived

(* Success was entered from the Done message: the Peck animation had       *)
(* finished first.                                                         *)
SuccessAfterPeckThenDone ==
    /\ app.animation.mode = "Success"
    /\ RendezvousWas("done")

(* C2: once a session has started it ends: unlock_in_progress leads to its *)
(* being false again, under any drops, Adds and clicks during the session. *)
SessionCompletes == app.unlock_in_progress ~> ~app.unlock_in_progress

(* C3: during a session ready_for_success is true only once the Peck       *)
(* animation has been ticked through two full loops of its two frames;     *)
(* while Peck plays the flag is false and loops_left counts the loops      *)
(* still to play.                                                          *)
ReadyOnlyAfterTwoLoops ==
    app.unlock_in_progress =>
        /\ app.unlock_ready_for_success => hist.peck_ticks = PECK_LOOPS * PECK_FRAMES
        /\ app.animation.mode = "Success" => app.unlock_ready_for_success
        /\ app.animation.mode = "Peck" =>
               /\ ~app.unlock_ready_for_success
               /\ hist.peck_ticks < PECK_LOOPS * PECK_FRAMES
               /\ app.animation.loops_left = PECK_LOOPS - (hist.peck_ticks \div PECK_FRAMES)

(* Done was received while Peck still played, and Success started at the   *)
(* second wraparound.                                                      *)
SuccessAtSecondWraparound ==
    /\ app.animation.mode = "Success"
    /\ RendezvousWas("tick")
    /\ hist.peck_ticks = PECK_LOOPS * PECK_FRAMES

(* C4: the messages the UI has applied in a session are a prefix of those  *)
(* the worker sent; among them the FileResults come in increasing index,   *)
(* an Info for entry i comes before any FileResult of a later entry and    *)
(* after none, and nothing comes after Done.                               *)
MessagesInSendOrder ==
    /\ Len(hist.recv) <= Len(hist.sent)
    /\ \A p \in 1..Len(hist.recv) : hist.recv[p] = hist.sent[p]
    /\ \A p, q \in 1..Len(hist.recv) :
           p < q =>
               /\ hist.recv[p].type # "Done"
               /\ hist.recv[q].type = "FileResult" =>
                      hist.recv[p].index < hist.recv[q].index
               /\ hist.recv[q].type = "Info" /\ hist.recv[p].type = "FileResult" =>
                      hist.recv[p].index <= hist.recv[q].index

(* A session of two files, the first a spawn failure, received to its end. *)
TwoFilesWithInfoReceived ==
    /\ Len(hist.recv) = 4
    /\ hist.recv[1].type = "FileResult" /\ hist.recv[1].index = 0
    /\ hist.recv[2].type = "Info"
    /\ hist.recv[3].type = "FileResult" /\ hist.recv[3].index = 1
    /\ hist.recv[4].type = "Done"

(* C5: the list never holds more than LIST_MAX_FILES entries.              *)
AtMostEightEntries == Len(app.file_entries) <= LIST_MAX_FILES

HasPdfExtension(path) ==
    /\ path.ext # None
    /\ Len(TheValue(path.ext)) = 3
    /\ TheValue(path.ext)[1] \in {"p", "P"}
    /\ TheValue(path.ext)[2] \in {"d", "D"}
    /\ TheValue(path.ext)[3] \in {"f", "F"}

(* C6: the paths in the list are pairwise distinct and each has the        *)
(* extension pdf in some casing.                                           *)
EntriesDistinctPdfs ==
    /\ \A i, j \in 1..Len(app.file_entries) :
           i # j => app.file_entries[i].path # app.file_entries[j].path
    /\ \A i \in 1..Len(app.file_entries) : HasPdfExtension(app.file_entries[i].path)

(* The batch a.pdf, a.pdf, notes.txt was dropped on a list that held b.Pdf *)
(* and a.pdf: the list is as it was.                                       *)
DuplicatesAndNonPdfDropped ==
    /\ last.dropped = <<PathA, PathA, PathNotes>>
    /\ Len(app.file_entries) = 2
    /\ app.file_entries[1].path = PathB
    /\ app.file_entries[2].path = PathA

(* C7: an entry has an output_path only if its unlock_result is success.   *)
OutputPathOnlyOnSuccess ==
    \A i \in 1..Len(app.file_entries) :
        app.file_entries[i].output_path # None =>
            app.file_entries[i].unlock_result = Some(TRUE)

IsUnlockedNameOf(p, stem) ==
    /\ p.stem = stem
    /\ p.tail.tag = "_unlocked"
    /\ \/ p.tail.kind \in {"none", "overflow"}
       \/ p.tail.kind = "num" /\ p.tail.n >= 1 /\ p.tail.n <= MAX_SUFFIX
    /\ p.ext = ExtLower

(* C8: an entry whose unlock_result is success has an output_path, which   *)
(* is an existing file named after the entry's stem: <stem>_unlocked.pdf,  *)
(* <stem>_unlocked_<k>.pdf with k in 1..9999 or <stem>_unlocked_overflow.pdf. *)
SuccessHasOwnOutput ==
    \A i \in 1..Len(app.file_entries) :
        app.file_entries[i].unlock_result = Some(TRUE) =>
            /\ app.file_entries[i].output_path # None
            /\ Exists(TheValue(app.file_entries[i].output_path), disk, env)
            /\ IsUnlockedNameOf(TheValue(app.file_entries[i].output_path),
                                file_stem(app.file_entries[i].path))

(* The candidates of stem in dir with an index below idx all existed on    *)
(* the disk d: those below PreCount from startup, the others written.      *)
AllExistBelow(dir, stem, idx, d, e) ==
    \A k \in PreCount(dir, stem, e)..(idx - 1) : Candidate(dir, stem, k) \in d

(* chosen is the first of the candidates of stem in dir that did not exist *)
(* on the disk d, or the overflow name if all of them existed.             *)
IsFirstFree(chosen, dir, stem, d, e) ==
    /\ chosen.dir = dir
    /\ chosen.stem = stem
    /\ chosen.tail.kind = "overflow" => AllExistBelow(dir, stem, MAX_SUFFIX + 1, d, e)
    /\ chosen.tail.kind # "overflow" =>
           /\ chosen = Candidate(dir, stem, CandidateIndex(chosen))
           /\ CandidateIndex(chosen) <= MAX_SUFFIX
           /\ ~Exists(chosen, d, e)
           /\ AllExistBelow(dir, stem, CandidateIndex(chosen), d, e)

(* C9: the output path the worker chose for a file is the first candidate  *)
(* that did not exist when it was chosen, so that the tool did not write   *)
(* over an existing file, or the overflow name when all candidates existed. *)
ChosenIsFirstFree ==
    last.op = "worker" =>
        IsFirstFree(TheValue(last.chosen), OutputDir(TheValue(last.path), env),
                    file_stem(TheValue(last.path)), last.before, env)

(* The second entry of stem a got a_unlocked_1.pdf, a_unlocked.pdf having  *)
(* been written for the first entry.                                       *)
SecondOfSameStemGetsSuffixOne ==
    /\ last.op = "worker"
    /\ env.pre = 0
    /\ last.path = Some(PathA2)
    /\ last.before = {Candidate(OutputDir(PathA2, env), "a", 0)}
    /\ last.chosen = Some(Candidate(OutputDir(PathA2, env), "a", 1))
    /\ ToolWrites(last.outcome)

SentSuccesses ==
    Cardinality({p \in 1..Len(hist.sent) :
                    hist.sent[p].type = "FileResult" /\ hist.sent[p].success})

(* C10: the summary set at the rendezvous of a session is that of the      *)
(* files the worker attempted (N, those of its snapshot) and unlocked (K,  *)
(* its success results).                                                   *)
SummaryCountsSessionFiles ==
    hist.rv # None =>
        TheValue(hist.rv).text = SummaryText(SentSuccesses, Len(hist.snapshot))

(* C11: at the rendezvous of a session the forward Success animation is    *)
(* started if the worker unlocked at least one file, the reverse one if it *)
(* attempted at least one file and unlocked none; reverse goes with the    *)
(* all-failed summary and with no other.                                   *)
DirectionFollowsSessionResults ==
    hist.rv # None =>
        /\ SentSuccesses > 0 => ~TheValue(hist.rv).reverse
        /\ Len(hist.snapshot) > 0 /\ SentSuccesses = 0 => TheValue(hist.rv).reverse
        /\ TheValue(hist.rv).reverse <=> TheValue(hist.rv).text = Text("failed")

(* C12, as stated: while unlock_in_progress holds the receiver is          *)
(* installed or the animation mode is Success.                             *)
ReceiverOrSuccess ==
    app.unlock_in_progress =>
        app.unlock_rx # None \/ app.animation.mode = "Success"

(* C12, amended: while unlock_in_progress holds the receiver is installed  *)
(* or Done has been received (work_done is true).                          *)
ReceiverOrWorkDone ==
    app.unlock_in_progress =>
        app.unlock_rx # None \/ (app.unlock_work_done /\ DoneReceived)

(* Done was received while Peck still plays: the receiver is gone and the  *)
(* mode is not yet Success.                                                *)
DoneReceivedDuringPeck ==
    /\ app.unlock_in_progress
    /\ app.unlock_rx = None
    /\ app.unlock_work_done
    /\ app.animation.mode = "Peck"

IsFinalSummary(text) ==
    text = Text("all_ok") \/ text = Text("failed") \/ text.t = "partial"

(* C13, as stated: when work_done and ready_for_success are both true the  *)
(* mode is Success and result_text is one of the three final summaries.    *)
BothFlagsMeanSuccess ==
    BothFlags(app) =>
        app.animation.mode = "Success" /\ IsFinalSummary(app.result_text)

(* C13, amended: when the second of the two flags is set (the rendezvous)  *)
(* the mode becomes Success and result_text one of the three final         *)
(* summaries; during a session both flags are true only after that.        *)
RendezvousStartsSuccess ==
    /\ hist.rv # None =>
           /\ TheValue(hist.rv).mode = "Success"
           /\ IsFinalSummary(TheValue(hist.rv).text)
    /\ app.unlock_in_progress /\ BothFlags(app) => hist.rv # None

(* A rendezvous that set the partial summary, Success playing. *)
RendezvousWithPartialSummary ==
    /\ hist.rv # None
    /\ TheValue(hist.rv).text.t = "partial"
    /\ app.animation.mode = "Success"

(* What the app would be after the frame without its click: the same tick, *)
(* poll, drop and hover, for some state of the clock.                      *)
SameFrameUnclicked(dropped) ==
    {update(app, FrameInput(elapsed, dropped, TRUE, FALSE, None, reprobe),
            Pending, env, FreshId) : elapsed \in BOOLEAN, reprobe \in ReprobeChoices}

(* C14: with the tool classified as missing no worker is ever spawned and  *)
(* unlock_in_progress is never set; a click on a non-empty list sets       *)
(* result_text to the tool-missing message and changes nothing else of the *)
(* app.                                                                    *)
ToolMissingNeverUnlocks ==
    /\ [](~app.qpdf_ok =>
              ~app.unlock_in_progress /\ app.unlock_rx = None /\ workers = {})
    /\ [][(~app.qpdf_ok /\ last'.op = "click_unlock") =>
              /\ app'.result_text = Text("tool_error")
              /\ \E u \in SameFrameUnclicked(last'.dropped) :
                     app' = [u EXCEPT !.result_text = Text("tool_error")]
              /\ workers' = workers /\ chans' = chans /\ disk' = disk]_vars

(* The mascot was clicked with a file in the list and no tool. *)
ClickedWithoutTool ==
    /\ ~app.qpdf_ok
    /\ last.op = "click_unlock"
    /\ app.file_entries # <<>>
    /\ app.result_text = Text("tool_error")

(* C15: the install dialog is raised exactly once when the tool is        *)
(* missing, in the first frame, whether or not a click of that frame was   *)
(* rejected for the missing tool, and never when the tool is ok.           *)
DialogRaisedOnce ==
    /\ last.dialogs <= 1
    /\ app.qpdf_prompted <=> last.dialogs = 1
    /\ app.qpdf_ok => last.dialogs = 0
    /\ ~app.qpdf_ok /\ last.op # "init" => last.dialogs = 1
    /\ last.dialog_now => ~app.qpdf_ok

(* The first frame held a drop and a click that was rejected for the       *)
(* missing tool, and raised the dialog.                                    *)
DialogAfterRejectedClick ==
    /\ last.op = "click_unlock"
    /\ last.dialog_now
    /\ last.dialogs = 1
    /\ app.result_text = Text("tool_error")

(* The frames of the replacement machine that call add_files: a drop, or a *)
(* click on the empty list whose picker returns files.                     *)
AddInputs ==
    {in \in [elapsed : BOOLEAN, dropped : ClearBatches \cup {<<>>}, hovered : BOOLEAN,
             clicked : BOOLEAN, picked : PickChoices, reprobe : ReprobeChoices] :
        \/ in.dropped # <<>> /\ ~in.clicked /\ in.picked = None
        \/ in.dropped = <<>> /\ in.clicked /\ in.picked # None /\ app.file_entries = <<>>}

AddedPaths(in) == IF in.dropped # <<>> THEN in.dropped ELSE TheValue(in.picked)

(* The app when add_files is called in the frame. *)
BeforeAdd(in) ==
    IF in.dropped # <<>> THEN AfterMessages(AfterTick(app, in), in, Pending)
    ELSE BeforeClick(app, in, Pending, env)

FirstAt(paths, path) ==
    CHOOSE i \in 1..Len(paths) :
        paths[i] = path /\ \A j \in 1..(i - 1) : paths[j] # path

(* entries are new entries for the PDFs of paths, one each, in their order. *)
AcceptedFrom(entries, paths) ==
    /\ Len(entries) = Cardinality({paths[i] : i \in {j \in 1..Len(paths) : is_pdf(paths[j])}})
    /\ \A k \in 1..Len(entries) :
           /\ is_pdf(entries[k].path)
           /\ \E i \in 1..Len(paths) : paths[i] = entries[k].path
           /\ entries[k].unlock_result = None
           /\ entries[k].output_path = None
    /\ \A k1, k2 \in 1..Len(entries) :
           k1 < k2 => FirstAt(paths, entries[k1].path) < FirstAt(paths, entries[k2].path)

IsPrefix(old, new) == Len(old) <= Len(new) /\ SubSeq(new, 1, Len(old)) = old

AddEffect(s2, paths) ==
    IF s2.had_unlock
    THEN /\ AcceptedFrom(app'.file_entries, paths)
         /\ app'.result_text = EmptyText
         /\ ~app'.had_unlock
    ELSE /\ IsPrefix(s2.file_entries, app'.file_entries)
         /\ ~app'.had_unlock

(* C16: an Add executed while had_unlock is set replaces the list in one   *)
(* step (the entries are then the PDFs accepted from that call, in order,  *)
(* none from before, result_text is empty and had_unlock is false); an Add *)
(* executed while had_unlock is not set only appends and keeps every       *)
(* existing entry unchanged.                                               *)
AddReplacesOrAppends ==
    [][\A in \in AddInputs :
           (/\ last'.op = FrameOp(BeforeClick(app, in, Pending, env), in)
            /\ last'.dropped = in.dropped
            /\ app' = update(app, in, Pending, env, FreshId))
               => AddEffect(BeforeAdd(in), AddedPaths(in))]_vars

(* A drop during a later session has replaced a list of two entries, which *)
(* the session's worker was given, by the one PDF of the dropped batch.    *)
ListReplacedDuringSession ==
    /\ hist.started
    /\ Len(hist.snapshot) = 2
    /\ last.dropped = <<PathA, PathA, PathNotes>>
    /\ Len(app.file_entries) = 1
    /\ app.file_entries[1].path = PathA
    /\ ~app.had_unlock

(* The frames of the replacement machine with a click. *)
ClickInputs ==
    [elapsed : BOOLEAN, dropped : {<<>>}, hovered : {TRUE}, clicked : {TRUE},
     picked : PicksNow(PickChoices), reprobe : ReprobeChoices]

(* The click left the app as the frame had it before the click. *)
ClickIgnored(s4) ==
    /\ last'.op # "click_pick"
    /\ workers' = workers
    /\ app'.file_entries = s4.file_entries
    /\ app'.animation = s4.animation
    /\ app'.unlock_ready_for_success = s4.unlock_ready_for_success
    /\ app'.unlock_work_done = s4.unlock_work_done
    /\ app'.result_text = s4.result_text

(* C17: while unlock_in_progress holds the click is disabled: a click      *)
(* handled in such a state spawns no worker, opens no file picker, adds no *)
(* entries, and leaves the animation mode, the two rendezvous flags and    *)
(* result_text unchanged.                                                  *)
ClickDisabledInSession ==
    [][\A in \in ClickInputs :
           (/\ last'.op = FrameOp(BeforeClick(app, in, Pending, env), in)
            /\ last'.dropped = <<>>
            /\ app' = update(app, in, Pending, env, FreshId)
            /\ BeforeClick(app, in, Pending, env).unlock_in_progress)
               => ClickIgnored(BeforeClick(app, in, Pending, env))]_vars

(* The same of the clicks that find the list non-empty.                    *)
ClickOnListDisabledInSession ==
    [][\A in \in ClickInputs :
           (/\ last'.op = "click_unlock"
            /\ last'.op = FrameOp(BeforeClick(app, in, Pending, env), in)
            /\ last'.dropped = <<>>
            /\ app' = update(app, in, Pending, env, FreshId)
            /\ BeforeClick(app, in, Pending, env).unlock_in_progress)
               => ClickIgnored(BeforeClick(app, in, Pending, env))]_vars

IsFileResult(m) == m.type = "FileResult"

FileResults(sent) == SelectSeq(sent, IsFileResult)

(* The session's worker, while its thread runs. *)
SessionWorkers == {w \in workers : w.id = hist.id}

(* sent is what a worker given n entries has sent, frs the FileResults in  *)
(* it: the indexes 0, 1, .. in order, Done last and after n of them.       *)
SentInOrder(sent, frs, n) ==
    /\ Len(frs) <= n
    /\ \A k \in 1..Len(frs) : frs[k].index = k - 1
    /\ \A p \in 1..Len(sent) :
           sent[p].type = "Done" => p = Len(sent) /\ Len(frs) = n
    /\ \A w \in SessionWorkers :
           /\ w.files = hist.snapshot
           /\ w.index = Len(frs)
           /\ \A p \in 1..Len(sent) : sent[p].type # "Done"
    /\ SessionWorkers = {} => sent # <<>> /\ sent[Len(sent)].type = "Done"

(* C18: for a snapshot of n entries the worker sends exactly one           *)
(* FileResult for each index 0..n-1, in order, and then exactly one Done,  *)
(* whatever the tool's outcomes: after a failure on entry i the worker     *)
(* goes on with entry i+1, and nothing is sent after Done.                 *)
WorkerSendsEachThenDone ==
    hist.started => SentInOrder(hist.sent, FileResults(hist.sent), Len(hist.snapshot))

(* A worker given two entries has ended: the first spawn failed, the       *)
(* second entry was unlocked, then Done.                                   *)
WorkerEndedAfterFailure ==
    /\ hist.started
    /\ SessionWorkers = {}
    /\ Len(hist.snapshot) = 2
    /\ Len(hist.sent) = 4
    /\ hist.sent[1] = FileResultMsg(0, FALSE, None)
    /\ hist.sent[2].type = "Info"
    /\ hist.sent[3].type = "FileResult" /\ hist.sent[3].index = 1 /\ hist.sent[3].success
    /\ hist.sent[4] = DoneMsg

(* What the worker is to send for entry i, the tool having ended in        *)
(* outcome with the output path chosen, on the disk d2 it left.            *)
MessagesFor(outcome, i, chosen, d2) ==
    IF outcome = "spawn_fail" THEN <<FileResultMsg(i, FALSE, None), InfoMsg(i)>>
    ELSE IF outcome \in {"ok_file", "ok_nofile"} /\ Exists(chosen, d2, env)
    THEN <<FileResultMsg(i, TRUE, Some(chosen))>>
    ELSE <<FileResultMsg(i, FALSE, None)>>

(* C19: a spawn failure of the tool for entry i makes the worker send a    *)
(* failure FileResult for i followed by exactly one Info; a non-zero exit, *)
(* or a success exit with no output file, a failure FileResult for i and   *)
(* no Info; a success a success FileResult with the output path, no Info.  *)
MessagesFollowOutcome ==
    [][last'.op = "worker" =>
           /\ hist.started
           /\ hist'.sent = hist.sent \o MessagesFor(last'.outcome,
                                                    Len(FileResults(hist.sent)),
                                                    TheValue(last'.chosen), disk')]_vars

(* The tool was unlocked the first entry and could not be spawned for the  *)
(* second: a success with its path, then a failure and the Info.           *)
SpawnFailedOnSecondEntry ==
    /\ last.op = "worker"
    /\ last.outcome = "spawn_fail"
    /\ Len(hist.sent) = 3
    /\ hist.sent[1] = FileResultMsg(0, TRUE, hist.sent[1].output_path)
    /\ hist.sent[1].output_path # None
    /\ hist.sent[2] = FileResultMsg(1, FALSE, None)
    /\ hist.sent[3] = InfoMsg(1)

(* The frames with a click that finds the list non-empty. *)
UnlockClickInputs ==
    [elapsed : BOOLEAN, dropped : DropBatches \cup {<<>>}, hovered : {TRUE},
     clicked : {TRUE}, picked : {None}, reprobe : ReprobeChoices]

(* start_unlock has turned s4 into app', with a new worker and channel. *)
SessionStartedFrom(s4) ==
    /\ app'.unlock_in_progress
    /\ ~app'.unlock_work_done
    /\ ~app'.unlock_ready_for_success
    /\ app'.result_text = Text("processing")
    /\ app'.animation = [mode |-> "Peck", frame_index |-> 0, loops_left |-> PECK_LOOPS]
    /\ app'.file_entries = s4.file_entries
    /\ app'.had_unlock = s4.had_unlock
    /\ \E rx \in (DOMAIN chans') \ (DOMAIN chans) :
           /\ app'.unlock_rx = Some(rx)
           /\ chans'[rx] = <<>>
           /\ workers' = workers \cup {[id |-> rx, files |-> s4.file_entries, index |-> 0]}
           /\ \A w \in workers : w.id # rx

(* C20: StartUnlock invoked with unlock_in_progress false, entries         *)
(* non-empty and the tool ok sets unlock_in_progress, clears work_done and *)
(* ready_for_success, sets result_text to the processing text, starts Peck *)
(* at frame 0 with two loops left, and installs the receiver of a worker   *)
(* given a copy of the entries; entries and had_unlock are unchanged, and  *)
(* flags left true by a previous session do not carry over.                *)
StartUnlockStartsSession ==
    [][\A in \in UnlockClickInputs :
           (/\ last'.op = "click_unlock"
            /\ last'.dropped = in.dropped
            /\ app' = update(app, in, Pending, env, FreshId)
            /\ ~BeforeClick(app, in, Pending, env).unlock_in_progress
            /\ BeforeClick(app, in, Pending, env).file_entries # <<>>
            /\ BeforeClick(app, in, Pending, env).qpdf_ok)
               => SessionStartedFrom(BeforeClick(app, in, Pending, env))]_vars

(* A second session has just started: the first one's Done had set         *)
(* had_unlock and work_done, and both flags are false again.               *)
SecondSessionStarted ==
    /\ last.op = "click_unlock"
    /\ hist.started /\ hist.sent = <<>> /\ hist.recv = <<>>
    /\ app.had_unlock
    /\ app.unlock_in_progress
    /\ ~app.unlock_work_done /\ ~app.unlock_ready_for_success
    /\ app.animation.mode = "Peck" /\ app.animation.loops_left = PECK_LOOPS

(* The tick at the last frame of Success ends the session. *)
SuccessWrapEndsSession(s1) ==
    /\ ~s1.unlock_in_progress
    /\ s1.animation.mode = IF s1.file_entries # <<>> THEN "HappyLoop" ELSE "Logo"
    /\ s1.animation.frame_index = 0

(* Success goes on from one frame to the next, or ends at its wraparound. *)
SuccessGoesOn ==
    \/ /\ app'.animation.mode = "Success"
       /\ app'.unlock_in_progress
       /\ app'.animation.frame_index \in
              {app.animation.frame_index, app.animation.frame_index + 1}
    \/ /\ app.animation.frame_index = SUCCESS_FRAMES - 1
       /\ app'.animation.mode # "Success"
       /\ SuccessWrapEndsSession(tick_animation(app, TRUE))

(* unlock_in_progress is cleared by the tick at the wraparound of Success  *)
(* and at no other point.                                                  *)
ClearedOnlyAtSuccessWrap ==
    /\ [](app.animation.mode = "Success"
             /\ app.animation.frame_index = SUCCESS_FRAMES - 1
              => SuccessWrapEndsSession(tick_animation(app, TRUE)))
    /\ [][app.unlock_in_progress /\ ~tick_animation(app, TRUE).unlock_in_progress
              => /\ app.animation.mode = "Success"
                 /\ app.animation.frame_index = SUCCESS_FRAMES - 1]_vars
    /\ [][app.unlock_in_progress /\ last'.op \in {"worker", "done"}
              => app'.unlock_in_progress]_vars
    /\ [][app.unlock_in_progress /\ ~app'.unlock_in_progress
              => /\ app.animation.mode = "Success"
                 /\ app.animation.frame_index = SUCCESS_FRAMES - 1
                 /\ last'.op = "frame"]_vars

(* C21: once started, the Success animation plays exactly one pass of its  *)
(* 5 frames; at its wraparound unlock_in_progress is cleared and the mode  *)
(* becomes HappyLoop if entries is non-empty and Logo otherwise;           *)
(* unlock_in_progress is cleared at no other point.                        *)
SuccessPlaysOnePass ==
    /\ ClearedOnlyAtSuccessWrap
    /\ [][app.animation.mode = "Success" => SuccessGoesOn]_vars

(* The frames that only tick and poll. *)
PollInputs ==
    [elapsed : BOOLEAN, dropped : {<<>>}, hovered : BOOLEAN, clicked : {FALSE},
     picked : {None}, reprobe : ReprobeChoices]

(* The FileResults of the poll that address the entry at position i. *)
ResultsFor(i) ==
    {Pending[p] : p \in {q \in 1..Len(Pending) :
                            IsFileResult(Pending[q]) /\ Pending[q].index = i - 1}}

(* entry has become shown by applying the FileResult m. *)
ResultApplied(entry, shown, m, reprobe) ==
    /\ shown.path = entry.path
    /\ shown.unlock_result = Some(m.success)
    /\ IF m.success
       THEN /\ shown.output_path = m.output_path
            /\ shown.status = "unlock_ok"
            /\ shown.icon = IF detect_encrypted(reprobe) = Some(TRUE)
                            THEN "locked" ELSE "unlocked"
       ELSE /\ shown.output_path = entry.output_path
            /\ shown.status = "unlock_failed"
            /\ shown.icon = entry.icon

EntriesAfterPoll(reprobe) ==
    /\ Len(app'.file_entries) = Len(app.file_entries)
    /\ \A i \in 1..Len(app.file_entries) :
           /\ ResultsFor(i) = {} => app'.file_entries[i] = app.file_entries[i]
           /\ \A m \in ResultsFor(i) :
                  ResultApplied(app.file_entries[i], app'.file_entries[i], m, reprobe)

(* C22: applying a per-file success sets the addressed entry's             *)
(* unlock_result to success, its output_path to the carried path, its      *)
(* status to the success text, and its icon to locked only if the re-probe *)
(* of the output file returns encrypted, to unlocked if it returns         *)
(* not-encrypted or unknown; applying a failure sets unlock_result to      *)
(* failure and the status to the failure text and leaves icon and paths;   *)
(* no other entry is modified.                                             *)
FileResultUpdatesItsEntry ==
    [][\A in \in PollInputs :
           (/\ last'.op = "frame"
            /\ last'.dropped = <<>>
            /\ app.unlock_rx # None
            /\ app' = update(app, in, Pending, env, FreshId))
               => EntriesAfterPoll(in.reprobe)]_vars

(* Of two entries the first was unlocked, and its output is still          *)
(* encrypted; the second has no result yet.                                *)
SuccessShownLocked ==
    /\ last.op = "frame"
    /\ Len(app.file_entries) = 2
    /\ app.file_entries[1].unlock_result = Some(TRUE)
    /\ app.file_entries[1].status = "unlock_ok"
    /\ app.file_entries[1].icon = "locked"
    /\ app.file_entries[1].output_path # None
    /\ app.file_entries[2].unlock_result = None
    /\ hist.started /\ Len(hist.recv) = 1

(* The app when the p-th message of the poll is applied, in a frame whose  *)
(* animation interval has elapsed or not.                                  *)
AppAt(p, elapsed) ==
    DrainLoop(tick_animation(app, elapsed), SubSeq(Pending, 1, p - 1), 1, RunPlain)

(* The Info messages of the poll, by position. *)
InfosPending == {p \in 1..Len(Pending) : Pending[p].type = "Info"}

IsInfo(m) == m.type = "Info"

(* An Info of the session was applied before the p-th message of the poll. *)
InfoBefore(p) == SelectSeq(hist.recv \o SubSeq(Pending, 1, p - 1), IsInfo) # <<>>

Replaceable(text) == text = EmptyText \/ text = Text("processing")

(* The Info replaces the text of s if and only if it is empty or the       *)
(* processing text, and changes nothing else.                              *)
InfoApplied(s, m) ==
    ApplyMessage(s, m, RunPlain) =
        IF Replaceable(s.result_text) THEN [s EXCEPT !.result_text = InfoText(m.index)]
        ELSE s

InfoReplacesIfReplaceable ==
    \A p \in InfosPending, elapsed \in BOOLEAN : InfoApplied(AppAt(p, elapsed), Pending[p])

(* The text of an Info is shown only during a session, before its          *)
(* rendezvous: the rendezvous writes the summary over it.                  *)
InfoGoneAtRendezvous ==
    /\ app.result_text.t = "info" => hist.started /\ hist.rv = None
    /\ hist.rv # None => IsFinalSummary(TheValue(hist.rv).text)

(* C23, as stated: an Info message replaces result_text if and only if it  *)
(* is empty or the processing text when the message is applied; hence      *)
(* within one session at most the first Info is shown, and it is replaced  *)
(* by the summary at the success rendezvous.                               *)
OnlyFirstInfoShown ==
    /\ InfoReplacesIfReplaceable
    /\ \A p \in InfosPending, elapsed \in BOOLEAN :
           InfoBefore(p) => ~Replaceable(AppAt(p, elapsed).result_text)
    /\ InfoGoneAtRendezvous

(* C23, amended: an Info message replaces result_text if and only if it is *)
(* empty or the processing text when the message is applied; hence within  *)
(* one session an Info after the first is shown only if result_text is     *)
(* empty when it is applied (an Add has cleared it since), and the Info    *)
(* shown is replaced by the summary at the success rendezvous.             *)
LaterInfoShownOnlyOnEmptyText ==
    /\ InfoReplacesIfReplaceable
    /\ \A p \in InfosPending, elapsed \in BOOLEAN :
           InfoBefore(p) => AppAt(p, elapsed).result_text # Text("processing")
    /\ InfoGoneAtRendezvous

(* Two Info messages of a session were applied, with no Add in between:    *)
(* the text is the Info's, and the second one found it there.              *)
SecondInfoNotShown ==
    /\ hist.started
    /\ Len(SelectSeq(hist.recv, IsInfo)) = 2
    /\ last.op = "frame" /\ last.dropped = <<>>
    /\ app.file_entries = hist.snapshot
    /\ app.result_text = InfoText(0)

(* The phrase occurs in the text at some position, word for word. *)
OccursIn(text, phrase) ==
    \E i \in 0..(Len(text) - Len(phrase)) :
        \A j \in 1..Len(phrase) : text[i + j] = phrase[j]

EncryptedPhrases ==
    {<<"file", "is", "encrypted">>, <<"encryption:", "yes">>, <<"user", "password">>,
     <<"owner", "password">>}

SaysEncrypted(text) == \E phrase \in EncryptedPhrases : OccursIn(text, phrase)

(* What the probe is to return for a run. *)
ProbeResult(run) ==
    IF ~run.spawn_ok \/ ~run.exit_ok THEN None
    ELSE IF SaysEncrypted(to_lowercase(run.stdout)) THEN Some(TRUE)
    ELSE IF OccursIn(to_lowercase(run.stdout), <<"not", "encrypted">>) THEN Some(FALSE)
    ELSE None

SeededFrom(entry, result) ==
    /\ entry.icon = IF result = Some(FALSE) THEN "unlocked" ELSE "locked"
    /\ entry.unlock_result = None
    /\ entry.output_path = None

(* C24: the probe returns unknown on spawn failure or non-zero exit;       *)
(* otherwise, on the lower-cased stdout, encrypted if one of the four      *)
(* encrypted phrases occurs (this test first), else not-encrypted if "not  *)
(* encrypted" occurs, else unknown.  Add seeds a new entry with the locked *)
(* icon for encrypted and for unknown and the unlocked icon for            *)
(* not-encrypted, with unlock_result and output_path unset.                *)
ProbeClassifiesAndSeeds ==
    /\ detect_encrypted(TheValue(env.input_run)) = ProbeResult(TheValue(env.input_run))
    /\ \A i \in 1..Len(app.file_entries) :
           SeededFrom(app.file_entries[i], ProbeResult(TheValue(env.input_run)))

(* An entry was added whose probe printed an encrypted phrase and "not     *)
(* encrypted", in upper case in part: it is shown locked.                  *)
SeededLockedByPrecedence ==
    /\ last.dropped # <<>>
    /\ Len(app.file_entries) = 1
    /\ TheValue(env.input_run).exit_ok
    /\ TheValue(env.input_run).stdout = <<"File", "is", "NOT", "encrypted", "User", "Password">>
    /\ app.file_entries[1].icon = "locked"

(* The height the window is to have for a list of n entries. *)
HeightFor(n) ==
    IF n <= 2 THEN 390
    ELSE IF n <= 8 THEN 390 + (n - 2) * 70
    ELSE 975

(* C25: after every Add, by drop or by the picker, the recorded window     *)
(* height is the base, 390, for a list of at most 2 entries, the base plus *)
(* 70 for each entry beyond 2 for 3 to 8 entries, and the maximum, 975,    *)
(* above 8; the height is non-decreasing in the number of entries, and the *)
(* width of the window never changes.                                      *)
WindowHeightFollowsList ==
    /\ app.last_window_height = HeightFor(Len(app.file_entries))
    /\ \A n \in 0..Len(app.file_entries) : HeightFor(n) <= app.last_window_height
    /\ last.window = InnerSize(WINDOW_WIDTH, app.last_window_height)

(* The picker has added nine files to the empty list: the window has its   *)
(* maximal height.                                                         *)
WindowAtMaxAfterPick ==
    /\ last.op = "click_pick"
    /\ Len(app.file_entries) = 9
    /\ app.last_window_height = WINDOW_HEIGHT_MAX
    /\ last.window.height = WINDOW_HEIGHT_MAX

(* C26: while unlock_in_progress holds the animation mode is Peck, Logo    *)
(* (Peck finished, waiting for Done) or Success and never HappyLoop: no    *)
(* drop, Add, hover or click during a session switches the mascot away     *)
(* from the Peck or Success animation before it has completed.             *)
SessionKeepsItsAnimation ==
    /\ [](app.unlock_in_progress => app.animation.mode \in {"Peck", "Logo", "Success"})
    /\ [][(app.unlock_in_progress /\ app.animation.mode = "Peck")
              => \/ app'.animation.mode = "Peck"
                 \/ app'.unlock_ready_for_success]_vars

(* A frame without drop or click, hovered or not, never switches the       *)
(* mascot to HappyLoop during a session.                                   *)
HoverKeepsSessionAnimation ==
    [][(/\ app.unlock_in_progress /\ app.animation.mode # "HappyLoop"
        /\ last'.op = "frame" /\ last'.dropped = <<>>)
           => app'.animation.mode # "HappyLoop" \/ ~app'.unlock_in_progress]_vars

(* The FileResults the next poll applies to an entry of the list: every    *)
(* frame polls before anything else changes the list.                      *)
ResultsToApply ==
    {p \in 1..Len(Pending) :
        IsFileResult(Pending[p]) /\ Pending[p].index < Len(app.file_entries)}

(* C27: every FileResult is applied to the entry the worker processed:     *)
(* when the FileResult for snapshot index i is applied, the entry at index *)
(* i of the current list, if any, has the path of snapshot[i], for every   *)
(* interleaving of Adds with the running session.                          *)
ResultAppliedToItsFile ==
    hist.started =>
        \A p \in ResultsToApply :
            app.file_entries[Pending[p].index + 1].path
                = hist.snapshot[Pending[p].index + 1].path

(* C28: at most one unlock worker exists at any time: a new worker is      *)
(* spawned only after the previous worker's Done has been received and its *)
(* receiver dropped, so that no message of an earlier session's worker is  *)
(* applied during a later session.                                         *)
OneWorkerAtATime ==
    /\ [](Cardinality(workers) <= 1)
    /\ [](\A w \in workers : hist.started /\ w.id = hist.id /\ app.unlock_rx = Some(w.id))
    /\ [](\A id \in DOMAIN chans : hist.started /\ id = hist.id /\ app.unlock_rx = Some(id))
    /\ [](app.unlock_rx # None => hist.sent = hist.recv \o Pending)
    /\ [][(\E w \in workers' \ workers : w.index = 0)
              => /\ workers = {}
                 /\ app.unlock_rx = None
                 /\ DOMAIN chans = {}
                 /\ app.had_unlock => app.unlock_work_done]_vars

(* The worker of a later session runs, the earlier session's Done having   *)
(* been received, and it has sent its first result.                        *)
LaterWorkerRuns ==
    /\ Cardinality(workers) = 1
    /\ app.had_unlock
    /\ app.unlock_in_progress
    /\ hist.started /\ Len(hist.sent) = 1 /\ hist.recv = <<>>
    /\ Pending = hist.sent

(* C29: while an unlock is in progress and the worker receiver is          *)
(* installed, every UI frame requests a further repaint, the frames in     *)
(* which Peck has finished, the mode is Logo and Done has not arrived      *)
(* included, so that the channel keeps being polled without user input.    *)
FrameOps == {"frame", "click_pick", "click_unlock"}

SessionFrameRequestsRepaint ==
    [][(/\ app.unlock_in_progress
        /\ app.unlock_rx # None
        /\ last'.op \in FrameOps)
           => last'.repaint]_vars

(* A frame of a session in a mode other than Logo asks for the next one. *)
AnimatedFrameRequestsRepaint ==
    [][(/\ app.animation.mode # "Logo"
        /\ last'.op \in FrameOps)
           => last'.repaint]_vars

====
